---------------------------- MODULE Spec2Model ----------------------------
(***************************************************************************)
(* A model of lvm-manager.py (LVM Snapshot Manager).                       *)
(*                                                                         *)
(* Text is modelled as a sequence of one-character strings, so that the    *)
(* program's splitting, stripping and parsing are computed as the code     *)
(* computes them.  An external command (subprocess.run) is modelled by its *)
(* outcome: kind "oserror" when the executable cannot be started (Python   *)
(* raises OSError/FileNotFoundError from subprocess.run), or kind "exit"   *)
(* with a return code, the captured stdout and the captured stderr.        *)
(***************************************************************************)
EXTENDS Integers, Sequences, FiniteSets, TLC

VARIABLES
  call,    \* function-level specification: the function called and its input
  ret,     \* function-level specification: what the call returned or raised
  win,     \* the MainWindow object's attributes
  proc,    \* "running", or "aborted" once an exception or qFatal ended the process
  disk,    \* the volumes the toolchain manages: rows lv, vg, origin in lvs order
  modal,   \* the question or input dialog a handler is waiting in
  ops,     \* the CommandThread objects created so far
  sigq     \* finished_signal emissions queued for the GUI thread

(***************************************************************************)
(* Python string primitives                                                *)
(***************************************************************************)
IsSpace(c) == c \in {" ", "\t", "\n"}

Digits == {"0", "1", "2", "3", "4", "5", "6", "7", "8", "9"}

DigitVal(c) ==
  CASE c = "0" -> 0 [] c = "1" -> 1 [] c = "2" -> 2 [] c = "3" -> 3
    [] c = "4" -> 4 [] c = "5" -> 5 [] c = "6" -> 6 [] c = "7" -> 7
    [] c = "8" -> 8 [] c = "9" -> 9

\* position of the first occurrence of character c in s, 0 when absent
RECURSIVE FindFrom(_, _, _)
FindFrom(s, c, i) ==
  IF i > Len(s) THEN 0
  ELSE IF s[i] = c THEN i ELSE FindFrom(s, c, i + 1)

Find(s, c) == FindFrom(s, c, 1)

Tail_(s, i) == SubSeq(s, i, Len(s))

\* str.split(sep) for a one-character separator: empty fields are kept
RECURSIVE SplitOn(_, _)
SplitOn(s, sep) ==
  LET i == Find(s, sep)
  IN  IF i = 0 THEN <<s>>
      ELSE <<SubSeq(s, 1, i - 1)>> \o SplitOn(Tail_(s, i + 1), sep)

\* str.split(sep, 1)
SplitOnce(s, sep) ==
  LET i == Find(s, sep)
  IN  IF i = 0 THEN <<s>> ELSE <<SubSeq(s, 1, i - 1), Tail_(s, i + 1)>>

RECURSIVE LStrip(_)
LStrip(s) ==
  IF s # <<>> /\ IsSpace(Head(s)) THEN LStrip(Tail(s)) ELSE s

RECURSIVE RStrip(_)
RStrip(s) ==
  IF s # <<>> /\ IsSpace(s[Len(s)]) THEN RStrip(SubSeq(s, 1, Len(s) - 1)) ELSE s

\* str.strip()
Strip(s) == RStrip(LStrip(s))

\* length of the leading run of non-whitespace characters of s
RECURSIVE WordLen(_)
WordLen(s) ==
  IF s = <<>> \/ IsSpace(Head(s)) THEN 0 ELSE 1 + WordLen(Tail(s))

\* str.split() with no argument: runs of whitespace separate, no empty fields
RECURSIVE SplitWs(_)
SplitWs(s) ==
  LET t == LStrip(s)
      n == WordLen(t)
  IN  IF t = <<>> THEN <<>>
      ELSE <<SubSeq(t, 1, n)>> \o SplitWs(Tail_(t, n + 1))

\* str.splitlines() on "\n": no empty last line, "" gives no line at all
RECURSIVE SplitLines(_)
SplitLines(s) ==
  LET i == Find(s, "\n")
  IN  IF s = <<>> THEN <<>>
      ELSE IF i = 0 THEN <<s>>
      ELSE <<SubSeq(s, 1, i - 1)>> \o SplitLines(Tail_(s, i + 1))

\* sep.join(parts)
RECURSIVE Join(_, _)
Join(parts, sep) ==
  IF parts = <<>> THEN <<>>
  ELSE IF Len(parts) = 1 THEN parts[1]
  ELSE parts[1] \o sep \o Join(Tail(parts), sep)

\* str.replace(a, b) for a one-character a; b is a (possibly empty) text
RECURSIVE Replace(_, _, _)
Replace(s, a, b) ==
  IF s = <<>> THEN <<>>
  ELSE (IF Head(s) = a THEN b ELSE <<Head(s)>>) \o Replace(Tail(s), a, b)

StartsWith(s, p) == Len(s) >= Len(p) /\ SubSeq(s, 1, Len(p)) = p

\* ''.join(filter(str.isdigit, p))
RECURSIVE FilterDigits(_)
FilterDigits(s) ==
  IF s = <<>> THEN <<>>
  ELSE (IF Head(s) \in Digits THEN <<Head(s)>> ELSE <<>>) \o FilterDigits(Tail(s))

AllDigits(s) == s # <<>> /\ \A i \in 1..Len(s) : s[i] \in Digits

\* int(s) of a non-empty all-digit text
RECURSIVE IntOf(_)
IntOf(s) ==
  IF s = <<>> THEN 0
  ELSE 10 * IntOf(SubSeq(s, 1, Len(s) - 1)) + DigitVal(s[Len(s)])

\* list.insert(i, x) and del list[i:] with 0-based Python positions
InsertAt(l, i, x) == SubSeq(l, 1, i) \o <<x>> \o Tail_(l, i + 1)
Truncate(l, n) == SubSeq(l, 1, n)

(***************************************************************************)
(* DetailsTableDialog: repair of one comma separated line                  *)
(***************************************************************************)
\* step 1: LSize merging (Python columns 2 and 3)
FixMerge(parts) ==
  IF Len(parts) >= 4
  THEN SubSeq(parts, 1, 2) \o <<parts[3] \o <<",">> \o parts[4]>> \o Tail_(parts, 5)
  ELSE parts

\* step 2: missing origin
FixOrigin(parts) ==
  IF Len(parts) = 7 THEN InsertAt(parts, 4, <<>>) ELSE parts

\* a variant of step 3 that leaves the trailing columns alone
FixRestNoJoin(parts) == parts

\* step 3: everything from Python column 7 on becomes the CTime column
FixRest(parts) ==
  IF Len(parts) > 8
  THEN Truncate(SubSeq(parts, 1, 7) \o <<Join(Tail_(parts, 8), <<" ">>)>>
                  \o Tail_(parts, 9), 8)
  ELSE parts

fix_parts(parts) == FixRest(FixOrigin(FixMerge(parts)))

\* the row of table cells built for one line: split, repair, strip each cell
DetailsRow(line) ==
  LET parts == fix_parts(SplitOn(line, ","))
  IN  [i \in 1..Len(parts) |-> Strip(parts[i])]


(***************************************************************************)
(* Outcomes of subprocess.run, and results of the program's functions      *)
(***************************************************************************)
OsError(cmd) == [kind |-> "oserror", returncode |-> 0, stdout |-> <<>>, stderr |-> <<>>, cmd |-> cmd]
Exit(cmd, rc, out, err) == [kind |-> "exit", returncode |-> rc, stdout |-> out, stderr |-> err, cmd |-> cmd]

Raise(exc) == [kind |-> "raise", exc |-> exc, val |-> <<>>]
Return(v) == [kind |-> "return", exc |-> "", val |-> v]

(***************************************************************************)
(* parse_version, check_lvm_version                                        *)
(***************************************************************************)
\* one dotted segment: int(p), or on failure the digits of p, or 0
ParseSegment(p) ==
  IF AllDigits(p) THEN IntOf(p)
  ELSE LET digits == FilterDigits(p)
       IN  IF digits # <<>> THEN IntOf(digits) ELSE 0

parse_version(version_str) ==
  LET ver == SplitOn(version_str, "(")[1]
      parts == SplitOn(Strip(ver), ".")
  IN  [i \in 1..Len(parts) |-> ParseSegment(parts[i])]

LvmVersionPrefix == <<"L", "V", "M", " ", "v", "e", "r", "s", "i", "o", "n", ":">>

NoVersion == [none |-> TRUE, tuple |-> <<>>]
Version(t) == [none |-> FALSE, tuple |-> t]

\* the loop over result.stdout.splitlines(): the first matching line decides
RECURSIVE ScanVersionLines(_)
ScanVersionLines(lines) ==
  IF lines = <<>> THEN Return(NoVersion)
  ELSE IF StartsWith(Head(lines), LvmVersionPrefix)
       THEN LET words == SplitWs(Strip(SplitOnce(Head(lines), ":")[2]))
            IN  IF words = <<>> THEN Raise("IndexError")
                ELSE Return(Version(parse_version(words[1])))
       ELSE ScanVersionLines(Tail(lines))

check_lvm_version(run) ==
  IF run.kind = "oserror" THEN Raise("OSError")
  ELSE IF run.returncode # 0 THEN Return(NoVersion)
  ELSE ScanVersionLines(SplitLines(run.stdout))

\* Python's comparison a > b of two tuples of integers
RECURSIVE TupleGreater(_, _)
TupleGreater(a, b) ==
  IF a = <<>> THEN FALSE
  ELSE IF b = <<>> THEN TRUE
  ELSE IF Head(a) # Head(b) THEN Head(a) > Head(b)
  ELSE TupleGreater(Tail(a), Tail(b))

tested_version == <<2, 3, 30>>

\* a variant of the comparison: current_version >= tested_version
NewerOrEqual(current) == current = tested_version \/ TupleGreater(current, tested_version)

\* current_version > tested_version
Newer(current) == TupleGreater(current, tested_version)

\* MainWindow.__init__, the version check: whether construction goes on, and
\* whether the warning box was shown
VersionGate(run) ==
  LET probe == check_lvm_version(run)
  IN  IF probe.kind = "raise"
      THEN [aborted |-> TRUE, exc |-> probe.exc, warned |-> FALSE, current_version |-> NoVersion]
      ELSE [aborted |-> FALSE, exc |-> "",
            warned |-> (~probe.val.none) /\ Newer(probe.val.tuple),
            current_version |-> probe.val]

(***************************************************************************)
(* LvmManager.list_logical_volumes                                         *)
(***************************************************************************)
LvRecord(parts) ==
  [vg |-> parts[2], lv |-> parts[1],
   is_snap |-> (IF Len(parts) > 2 THEN parts[3] ELSE <<>>) # <<>>]

InventoryLines(stdout) ==
  LET lines == SplitLines(Strip(stdout))
  IN  [i \in 1..Len(lines) |-> SplitWs(Strip(lines[i]))]

list_logical_volumes(run) ==
  IF run.kind = "oserror" THEN Raise("OSError")
  ELSE IF run.returncode # 0 THEN Raise("RuntimeError")
  ELSE LET rows == InventoryLines(run.stdout)
       IN  IF \E i \in 1..Len(rows) : Len(rows[i]) < 2
           THEN Raise("IndexError")
           ELSE Return([i \in 1..Len(rows) |-> LvRecord(rows[i])])

(***************************************************************************)
(* float(): a decimal text as the exact fraction n / d                     *)
(***************************************************************************)
RECURSIVE Pow10(_)
Pow10(k) == IF k = 0 THEN 1 ELSE 10 * Pow10(k - 1)

FloatBody(t) == IF t # <<>> /\ Head(t) \in {"-", "+"} THEN Tail(t) ELSE t
FloatInt(t) ==
  LET b == FloatBody(t) IN IF Find(b, ".") = 0 THEN b ELSE SubSeq(b, 1, Find(b, ".") - 1)
FloatFrac(t) ==
  LET b == FloatBody(t) IN IF Find(b, ".") = 0 THEN <<>> ELSE Tail_(b, Find(b, ".") + 1)

\* whether float(t) succeeds, for texts over digits, sign, point and other marks
FloatOk(t) ==
  LET digs == FloatInt(t) \o FloatFrac(t)
  IN  digs # <<>> /\ \A i \in 1..Len(digs) : digs[i] \in Digits

FloatVal(t) ==
  [n |-> (IF t # <<>> /\ Head(t) = "-" THEN -1 ELSE 1) * IntOf(FloatInt(t) \o FloatFrac(t)),
   d |-> Pow10(Len(FloatFrac(t)))]

Unknown == [unknown |-> TRUE, a |-> [n |-> 0, d |-> 1], b |-> [n |-> 0, d |-> 1]]
Pair(x, y) == [unknown |-> FALSE, a |-> x, b |-> y]

(***************************************************************************)
(* LvmManager.get_snapshot_info, LvmManager.get_vg_free_space              *)
(***************************************************************************)
\* used_mb = size_mb * percent / 100.0
Used(size_mb, percent) ==
  [n |-> size_mb.n * percent.n, d |-> size_mb.d * percent.d * 100]

SnapshotLine(parts) ==
  LET size_txt == Replace(parts[2], ",", <<".">>)
      pct_txt == Replace(Replace(parts[3], ",", <<".">>), "%", <<>>)
  IN  IF FloatOk(size_txt) /\ FloatOk(pct_txt)
      THEN Pair(Used(FloatVal(size_txt), FloatVal(pct_txt)), FloatVal(size_txt))
      ELSE Unknown

RECURSIVE ScanSnapshotLines(_, _)
ScanSnapshotLines(lines, lv_name) ==
  IF lines = <<>> THEN Unknown
  ELSE LET parts == SplitWs(Strip(Head(lines)))
       IN  IF Len(parts) = 3 /\ parts[1] = lv_name
           THEN SnapshotLine(parts)
           ELSE ScanSnapshotLines(Tail(lines), lv_name)

get_snapshot_info(lv_name, is_snap, run) ==
  IF ~is_snap THEN Return(Unknown)
  ELSE IF run.kind = "oserror" THEN Raise("OSError")
  ELSE IF run.returncode # 0 THEN Return(Unknown)
  ELSE Return(ScanSnapshotLines(SplitLines(Strip(run.stdout)), lv_name))

get_vg_free_space(run) ==
  IF run.kind = "oserror" THEN Raise("OSError")
  ELSE IF run.returncode # 0 THEN Return(Unknown)
  ELSE LET line == Strip(run.stdout)
           parts == SplitWs(line)
       IN  IF line = <<>> THEN Return(Unknown)
           ELSE IF Len(parts) # 2 THEN Return(Unknown)
           ELSE LET free_txt == Replace(parts[1], ",", <<".">>)
                    size_txt == Replace(parts[2], ",", <<".">>)
                IN  IF FloatOk(free_txt) /\ FloatOk(size_txt)
                    THEN Return(Pair(FloatVal(free_txt), FloatVal(size_txt)))
                    ELSE Return(Unknown)


(***************************************************************************)
(* LvmManager.create_snapshot, remove_snapshot, mount_snapshot: each       *)
(* returns the pair (success, message) or lets subprocess.run's OSError    *)
(* escape.                                                                 *)
(***************************************************************************)
Result(ok, msg) == [ok |-> ok, msg |-> msg]

create_snapshot(run) ==
  IF run.kind = "oserror" THEN Raise("OSError")
  ELSE IF run.returncode # 0 THEN Return(Result(FALSE, Strip(run.stderr)))
  ELSE Return(Result(TRUE, Strip(run.stdout)))

\* remove_snapshot with the message of a failure taken from stdout
remove_snapshot_stdout(run) ==
  IF run.kind = "oserror" THEN Raise("OSError")
  ELSE Return(Result(run.returncode = 0, Strip(run.stdout)))

remove_snapshot(run) ==
  IF run.kind = "oserror" THEN Raise("OSError")
  ELSE IF run.returncode # 0 THEN Return(Result(FALSE, Strip(run.stderr)))
  ELSE Return(Result(TRUE, Strip(run.stdout)))

\* mkdir -p runs first and its outcome is not looked at, unless it cannot be started
mount_snapshot(mkdir_run, run) ==
  IF mkdir_run.kind = "oserror" THEN Raise("OSError")
  ELSE IF run.kind = "oserror" THEN Raise("OSError")
  ELSE IF run.returncode # 0 THEN Return(Result(FALSE, Strip(run.stderr)))
  ELSE Return(Result(TRUE, Strip(run.stdout)))

\* what the wrapped function of op returns or raises when its command ends as run
Wrapped(op, mkdir_run, run) ==
  CASE op.fn = "create_snapshot" -> create_snapshot(run)
    [] op.fn = "remove_snapshot" -> remove_snapshot(run)
    [] OTHER -> mount_snapshot(mkdir_run, run)

CommandOf(fn) ==
  CASE fn = "create_snapshot" -> "lvcreate"
    [] fn = "remove_snapshot" -> "lvremove"
    [] OTHER -> "mount"

\* a variant that starts the command a second time when it did not exit with 0
InvocationsRetry(fn, mkdir_run, run) ==
  LET first == IF fn = "mount_snapshot" THEN <<"mkdir">> ELSE <<>>
  IN  IF fn = "mount_snapshot" /\ mkdir_run.kind = "oserror" THEN first
      ELSE IF run.kind = "exit" /\ run.returncode = 0 THEN Append(first, CommandOf(fn))
      ELSE first \o <<CommandOf(fn), CommandOf(fn)>>

\* the commands subprocess.run is called with, in order, by one call of the
\* wrapped function: a call that raises ends the function there
Invocations(fn, mkdir_run, run) ==
  IF fn = "mount_snapshot"
  THEN IF mkdir_run.kind = "oserror" THEN <<"mkdir">> ELSE <<"mkdir", "mount">>
  ELSE <<CommandOf(fn)>>

\* the mount point is a directory after the call: mkdir -p made it, or it was
\* there, and nothing in the functions removes it
DirAfter(dir_exists, fn, mkdir_run) ==
  dir_exists \/ (fn = "mount_snapshot" /\ mkdir_run.kind = "exit" /\ mkdir_run.returncode = 0)

\* str(e) of the exception a wrapped function raised
ExcText(exc) == <<"[", "E", "r", "r", "n", "o", "]">>

\* loading_finished(success, msg) calls self._callback(success, msg)
Forwarded(success, msg) == Result(success, msg)

\* CommandThread.run without the except clause: the exception ends the thread
\* and nothing is emitted
RunNoExcept(r) ==
  IF r.kind = "raise" THEN <<>> ELSE <<Result(r.val.ok, r.val.msg)>>

\* CommandThread.run: the (success, msg) pairs emitted on finished_signal for
\* the wrapped function's result r
CommandThreadRun(r) ==
  IF r.kind = "raise" THEN <<Result(FALSE, ExcText(r.exc))>>
  ELSE <<Result(r.val.ok, r.val.msg)>>

(***************************************************************************)
(* MainWindow: its attributes are the fields of one record, self.          *)
(* Rows are numbered from 1; currentRow = 0 is Qt's "no current item".     *)
(* self.exc names an exception that escaped the running handler.           *)
(***************************************************************************)
SnapshotMark == <<" ", "[", "s", "n", "a", "p", "s", "h", "o", "t", "]">>

\* the text of a list item, refresh_lv_list
ItemText(rec) ==
  rec.vg \o <<"/">> \o rec.lv \o (IF rec.is_snap THEN SnapshotMark ELSE <<>>)

\* vg, lv = text.split("/", 1); vg.strip(); lv.split()[0]
ItemVg(text) == Strip(SplitOnce(text, "/")[1])
ItemLv(text) == SplitWs(SplitOnce(text, "/")[2])[1]

NoUsage == [kind |-> "none", val |-> Unknown]

NewWindow ==
  [lvs |-> [set |-> FALSE, list |-> <<>>], lv_list |-> <<>>, currentRow |-> 0,
   delete_btn |-> TRUE, mount_btn |-> TRUE,
   usage_label |-> NoUsage, status_label |-> "",
   loading_dialog |-> [owner |-> 0, visible |-> FALSE], thread |-> 0,
   callback |-> "none", exc |-> ""]

\* self.lvs[index] can be evaluated
HasRow(self, row) == self.lvs.set /\ row \in 1..Len(self.lvs.list)

\* refresh_lv_list without self.lv_list.clear(): the new items are added after
\* the ones already shown
refresh_no_clear(self, run) ==
  LET r == list_logical_volumes(run)
  IN  IF r.kind = "raise" THEN self
      ELSE [self EXCEPT !.lvs = [set |-> TRUE, list |-> r.val],
                        !.lv_list = @ \o [i \in 1..Len(r.val) |-> ItemText(r.val[i])]]

refresh_lv_list(self, run) ==
  LET cleared == [self EXCEPT !.lv_list = <<>>, !.currentRow = 0]
      r == list_logical_volumes(run)
  IN  IF r.kind = "raise" THEN cleared
      ELSE [cleared EXCEPT !.lvs = [set |-> TRUE, list |-> r.val],
                           !.lv_list = [i \in 1..Len(r.val) |-> ItemText(r.val[i])]]

update_buttons_state(self) ==
  IF self.currentRow = 0
  THEN [self EXCEPT !.delete_btn = FALSE, !.mount_btn = FALSE]
  ELSE IF ~HasRow(self, self.currentRow)
       THEN [self EXCEPT !.exc = IF self.lvs.set THEN "IndexError" ELSE "AttributeError"]
       ELSE LET is_snap == self.lvs.list[self.currentRow].is_snap
            IN  [self EXCEPT !.delete_btn = is_snap, !.mount_btn = is_snap]

\* run is the outcome of the one command update_usage starts (lvs for a
\* snapshot, vgs otherwise)
update_usage(self, run) ==
  IF self.currentRow = 0 THEN [self EXCEPT !.usage_label = NoUsage]
  ELSE IF ~HasRow(self, self.currentRow)
       THEN [self EXCEPT !.exc = IF self.lvs.set THEN "IndexError" ELSE "AttributeError"]
       ELSE LET rec == self.lvs.list[self.currentRow]
                r == IF rec.is_snap THEN get_snapshot_info(rec.lv, rec.is_snap, run)
                     ELSE get_vg_free_space(run)
            IN  IF r.kind = "raise" THEN [self EXCEPT !.exc = r.exc]
                ELSE [self EXCEPT !.usage_label =
                        [kind |-> IF rec.is_snap THEN "snapshot" ELSE "vg", val |-> r.val]]

\* itemSelectionChanged: update_usage, then update_buttons_state
SelectionChanged(self, run) ==
  LET u == update_usage(self, run)
  IN  IF u.exc # "" THEN u ELSE update_buttons_state(u)

run_with_loading(self, op, callback) ==
  [self EXCEPT !.loading_dialog = [owner |-> op, visible |-> TRUE],
               !.thread = op, !.callback = callback]

\* a variant of the failure path that reloads the list
OnFailureRefresh(self, run) == update_buttons_state(refresh_lv_list(self, run))

\* the else branch of on_snapshot_created / _deleted / _mounted: a message box
OnFailure(self, run) == self

on_snapshot_created(self, success, run) ==
  IF success
  THEN update_buttons_state(refresh_lv_list([self EXCEPT !.status_label = "created"], run))
  ELSE OnFailure(self, run)

on_snapshot_deleted(self, success, run) ==
  IF success
  THEN update_buttons_state(refresh_lv_list([self EXCEPT !.status_label = "deleted"], run))
  ELSE OnFailure(self, run)

on_snapshot_mounted(self, success, run) ==
  IF success THEN [self EXCEPT !.status_label = "mounted"]
  ELSE OnFailure(self, run)

\* run is the outcome of the lvs command a refresh in the callback starts
loading_finished(self, success, run) ==
  LET closed == [self EXCEPT !.loading_dialog.visible = FALSE]
  IN  CASE self.callback = "on_snapshot_created" -> on_snapshot_created(closed, success, run)
        [] self.callback = "on_snapshot_deleted" -> on_snapshot_deleted(closed, success, run)
        [] self.callback = "on_snapshot_mounted" -> on_snapshot_mounted(closed, success, run)
        [] OTHER -> closed

\* MainWindow.__init__: the version check, then the first refresh
Construct(lvm_run, lvs_run) ==
  LET gate == VersionGate(lvm_run)
  IN  [aborted |-> gate.aborted, exc |-> gate.exc, warned |-> gate.warned,
       current_version |-> gate.current_version,
       self |-> IF gate.aborted THEN NewWindow
                ELSE update_buttons_state(refresh_lv_list(NewWindow, lvs_run))]

(***************************************************************************)
(* The toolchain: what the commands print and do for a given disk          *)
(***************************************************************************)
Row(lv, vg, origin) == [lv |-> lv, vg |-> vg, origin |-> origin]

SP == <<" ">>
NL == <<"\n">>

\* every line followed by a line break, as a command prints them
RECURSIVE Printed(_)
Printed(lines) ==
  IF lines = <<>> THEN <<>> ELSE Head(lines) \o NL \o Printed(Tail(lines))

\* sep.join over the non-empty fields, indented as lvs indents its rows
Fields(fs) == SP \o SP \o Join(SelectSeq(fs, LAMBDA f : f # <<>>), SP)

ErrText == <<" ", "e", "r", "r", "\n">>
OutText == <<" ", "o", "k", "\n">>

LvsStdout(d) == Printed([i \in 1..Len(d) |-> Fields(<<d[i].lv, d[i].vg, d[i].origin>>)])

OnDisk(d, vg, lv) == \E i \in 1..Len(d) : d[i].vg = vg /\ d[i].lv = lv

\* lvs --noheadings -o lv_name,vg_name,origin
LvsRuns(d) == {OsError("lvs"), Exit("lvs", 5, <<>>, ErrText), Exit("lvs", 0, LvsStdout(d), <<>>)}

SizeText == <<"1", "0", "2", "4", ".", "0", "0">>
PercentText == <<"2", "5", ".", "0", "0">>
FreeText == <<"5", "0", "0", ".", "0", "0">>
TotalText == <<"2", "0", "0", "0", ".", "0", "0">>

\* the command update_usage starts for the record rec
UsageRuns(d, rec) ==
  IF rec.is_snap
  THEN {OsError("lvs"), Exit("lvs", 5, <<>>, ErrText)}
       \cup (IF OnDisk(d, rec.vg, rec.lv)
             THEN {Exit("lvs", 0, Printed(<<Fields(<<rec.lv, SizeText, PercentText>>)>>), <<>>)}
             ELSE {})
  ELSE {OsError("vgs"), Exit("vgs", 5, <<>>, ErrText),
        Exit("vgs", 0, Printed(<<Fields(<<FreeText, TotalText>>)>>), <<>>)}

\* lvcreate -L size -s -n snap /dev/vg/lv succeeds only for a volume on the
\* disk and a free name; lvremove -f and mount only for a volume on the disk
CommandRuns(d, op) ==
  LET cmd == CASE op.fn = "create_snapshot" -> "lvcreate"
               [] op.fn = "remove_snapshot" -> "lvremove"
               [] OTHER -> "mount"
      can == IF op.fn = "create_snapshot"
             THEN OnDisk(d, op.vg, op.lv) /\ ~OnDisk(d, op.vg, op.arg)
             ELSE OnDisk(d, op.vg, op.lv)
  IN  {OsError(cmd), Exit(cmd, 5, <<>>, ErrText)}
      \cup (IF can THEN {Exit(cmd, 0, OutText, <<>>)} ELSE {})

\* the disk after the command of op ended as run
DiskAfter(d, op, run) ==
  IF run.kind # "exit" \/ run.returncode # 0 THEN d
  ELSE CASE op.fn = "create_snapshot" -> Append(d, Row(op.arg, op.vg, op.lv))
         [] op.fn = "remove_snapshot" ->
              SelectSeq(d, LAMBDA r : ~(r.vg = op.vg /\ (r.lv = op.lv \/ r.origin = op.lv)))
         [] OTHER -> d

NoModal == [kind |-> "none", vg |-> <<>>, lv |-> <<>>, names |-> <<>>]

(***************************************************************************)
(* Inputs of the function-level specification                              *)
(***************************************************************************)
MaxCsvLen == 10
MaxInvTokens == 3
MaxInvLines == 2
MaxInfoLines == 2
MaxVgTokens == 3
MaxVerSegs == 3

SeqsUpTo(S, n) == UNION {[1..k -> S] : k \in 0..n}


RunsOf(cmd, stdouts) ==
  {OsError(cmd), Exit(cmd, 5, <<>>, ErrText)} \cup {Exit(cmd, 0, o, <<>>) : o \in stdouts}

\* detailed-record lines: every text of commas and a field character
CsvLines == SeqsUpTo({",", "1"}, MaxCsvLen)

\* lvs --noheadings -o lv_name,vg_name,origin
InvNames == {<<"a">>, <<"g">>}
InvLines ==
  {SP \o SP \o Join(t, SP) : t \in SeqsUpTo(InvNames, MaxInvTokens)}
InvStdouts == {Printed(l) : l \in SeqsUpTo(InvLines, MaxInvLines)}

\* lvs --noheadings -o lv_name,lv_size,data_percent --units m --nosuffix
SizeTexts == {<<"1", "0", "2", "4", ".", "0", "0">>, <<"8", ",", "5", "0">>, <<"x">>}
PctTexts ==
  {<<"2", "5", ".", "0", "0">>, <<"1", "0", "0", ".", "0", "0">>,
   <<"1", "5", "0", ".", "0", "0">>, <<"-", "5", ".", "0", "0">>,
   <<"1", "2", ",", "5", "%">>, <<>>, <<"x">>}
InfoLines ==
  {SP \o SP \o Join(<<n, s>> \o (IF p = <<>> THEN <<>> ELSE <<p>>), SP) :
     n \in {<<"a">>, <<"b">>}, s \in SizeTexts, p \in PctTexts}
InfoStdouts == {Printed(l) : l \in SeqsUpTo(InfoLines, MaxInfoLines)}

\* vgs --noheadings -o vg_free,vg_size --units m --nosuffix
VgTexts == {<<"5", "0", "0", ".", "0", "0">>, <<"2", "0", "0", "0", ",", "0", "0">>, <<"x">>}
VgStdouts ==
  {Printed(<<SP \o SP \o Join(t, SP)>>) : t \in SeqsUpTo(VgTexts, MaxVgTokens)} \cup {<<>>}

\* lvm version
VerSegs == {<<"2">>, <<"0", "3">>, <<"3">>, <<"3", "0">>, <<"3", "1">>, <<"2", "9">>,
            <<"3", "0", "a">>, <<"g", "i", "t">>}
VerTexts ==
  {Join(t, <<".">>) \o b : t \in SeqsUpTo(VerSegs, MaxVerSegs) \ {<<>>},
                            b \in {<<>>, <<"(", "2", ")">>}}
LibraryLine == <<" ", " ", "L", "i", "b", "r", "a", "r", "y", ":", " ", "1", ".", "0", "2">>
VerStdouts ==
  {Printed(<<LvmVersionPrefix \o SP \o SP \o v \o SP \o <<"(", "x", ")">>, LibraryLine>>) :
     v \in VerTexts}
  \cup {Printed(<<LibraryLine>>), <<>>,
        Printed(<<LibraryLine, LvmVersionPrefix \o SP>>),
        Printed(<<SP \o SP \o LvmVersionPrefix \o SP \o <<"2", ".", "0", "3", ".", "3", "1">>>>)}

\* lvcreate, lvremove, mount: they cannot be started, or exit with or without
\* text on stdout and stderr
LifecycleFns == {"create_snapshot", "remove_snapshot", "mount_snapshot"}
LifecycleRuns(cmd) ==
  {OsError(cmd), Exit(cmd, 5, <<>>, ErrText), Exit(cmd, 5, OutText, <<"e">>),
   Exit(cmd, 1, OutText, <<>>), Exit(cmd, 0, OutText, <<>>), Exit(cmd, 0, <<>>, ErrText)}
\* mkdir -p: it cannot be started, makes the directory, or fails
LifecycleMkdirRuns(fn) ==
  IF fn = "mount_snapshot"
  THEN {OsError("mkdir"), Exit("mkdir", 0, <<>>, <<>>), Exit("mkdir", 1, <<>>, ErrText)}
  ELSE {Exit("mkdir", 0, <<>>, <<>>)}

\* the calls of the function-level specification, one disjunct per function
Calls(c) ==
  \/ \E l \in CsvLines : c = [fn |-> "DetailsTableDialog", line |-> l]
  \/ \E r \in RunsOf("lvs", InvStdouts) : c = [fn |-> "list_logical_volumes", run |-> r]
  \/ \E r \in RunsOf("lvs", InfoStdouts) :
       c = [fn |-> "get_snapshot_info", lv_name |-> <<"a">>, is_snap |-> TRUE, run |-> r]
  \/ c = [fn |-> "get_snapshot_info", lv_name |-> <<"a">>, is_snap |-> FALSE,
          run |-> OsError("lvs")]
  \/ \E r \in RunsOf("vgs", VgStdouts) : c = [fn |-> "get_vg_free_space", run |-> r]
  \/ \E r \in RunsOf("lvm", VerStdouts) : c = [fn |-> "check_lvm_version", run |-> r]
  \/ \E r \in RunsOf("lvm", VerStdouts), l \in RunsOf("lvs", {Printed(<<>>)}) :
       c = [fn |-> "MainWindow", run |-> r, lvs_run |-> l]
  \/ \E f \in LifecycleFns, e \in BOOLEAN :
       \E r \in LifecycleRuns(CommandOf(f)), m \in LifecycleMkdirRuns(f) :
         c = [fn |-> f, run |-> r, mkdir_run |-> m, dir_exists |-> e]

Idle == [fn |-> "idle"]
Pending == [kind |-> "pending", exc |-> "", val |-> <<>>]

(***************************************************************************)
(* The function-level specification: one call of one function, on one of   *)
(* the inputs above.                                                       *)
(***************************************************************************)
vars == <<call, ret, win, proc, disk, modal, ops, sigq>>
guivars == <<win, proc, disk, modal, ops, sigq>>

CallInit ==
  /\ Calls(call) /\ ret = Pending
  /\ win = NewWindow /\ proc = "running" /\ disk = <<>>
  /\ modal = NoModal /\ ops = <<>> /\ sigq = <<>>

CallDetailsRow ==
  /\ call.fn = "DetailsTableDialog" /\ ret = Pending
  /\ ret' = Return(DetailsRow(call.line))
  /\ UNCHANGED <<call, guivars>>

CallListLogicalVolumes ==
  /\ call.fn = "list_logical_volumes" /\ ret = Pending
  /\ ret' = list_logical_volumes(call.run)
  /\ UNCHANGED <<call, guivars>>

CallGetSnapshotInfo ==
  /\ call.fn = "get_snapshot_info" /\ ret = Pending
  /\ ret' = get_snapshot_info(call.lv_name, call.is_snap, call.run)
  /\ UNCHANGED <<call, guivars>>

CallGetVgFreeSpace ==
  /\ call.fn = "get_vg_free_space" /\ ret = Pending
  /\ ret' = get_vg_free_space(call.run)
  /\ UNCHANGED <<call, guivars>>

CallCheckLvmVersion ==
  /\ call.fn = "check_lvm_version" /\ ret = Pending
  /\ ret' = check_lvm_version(call.run)
  /\ UNCHANGED <<call, guivars>>

CallMainWindow ==
  /\ call.fn = "MainWindow" /\ ret = Pending
  /\ ret' = Return(Construct(call.run, call.lvs_run))
  /\ win' = ret'.val.self
  /\ proc' = IF ret'.val.aborted THEN "aborted" ELSE "running"
  /\ UNCHANGED <<call, disk, modal, ops, sigq>>

\* one lifecycle request: CommandThread.run calls the wrapped function once and
\* emits, loading_finished hands the emitted pair to the callback
CallLifecycle ==
  /\ call.fn \in LifecycleFns /\ ret = Pending
  /\ LET r == Wrapped(call, call.mkdir_run, call.run)
         out == CommandThreadRun(r)
     IN  ret' = Return([result |-> r, emitted |-> out,
                        received |-> [k \in 1..Len(out) |-> Forwarded(out[k].ok, out[k].msg)],
                        cmds |-> Invocations(call.fn, call.mkdir_run, call.run),
                        dir |-> DirAfter(call.dir_exists, call.fn, call.mkdir_run)])
  /\ UNCHANGED <<call, guivars>>

CallNext ==
  \/ CallDetailsRow
  \/ CallListLogicalVolumes
  \/ CallGetSnapshotInfo
  \/ CallGetVgFreeSpace
  \/ CallCheckLvmVersion
  \/ CallMainWindow
  \/ CallLifecycle

CallSpec == CallInit /\ [][CallNext]_vars

(***************************************************************************)
(* The application: the window after construction, the user's actions,     *)
(* the worker threads and the delivery of their signals.                   *)
(***************************************************************************)
MaxOps == 2

VgName == <<"g">>
Disk0 == <<Row(<<"a">>, VgName, <<>>), Row(<<"s">>, VgName, <<"a">>)>>

\* what the user may have typed into the snapshot name field
TypedNames == {<<>>, <<" ", "s">>, <<"t">>}
\* what the user may have typed into the mount point dialog
TypedMountPoints == {<<" ">>, <<"/", "m">>}
Answers == {"Yes", "No", "Escape"}

LvmOk ==
  Exit("lvm", 0, Printed(<<LvmVersionPrefix \o SP \o <<"2", ".", "0", "3", ".", "3", "0">>>>), <<>>)

Init ==
  /\ call = Idle /\ ret = Pending
  /\ disk = Disk0
  /\ \E r \in LvsRuns(Disk0) : win = Construct(LvmOk, r).self
  /\ proc = "running"
  /\ modal = NoModal /\ ops = <<>> /\ sigq = <<>>

\* the main window takes input: no modal dialog is open
UiFree == proc = "running" /\ modal = NoModal /\ ~win.loading_dialog.visible

\* a handler ended with the window attributes w; an escaped exception ends the process
Settle(w) ==
  /\ win' = w
  /\ proc' = IF w.exc # "" THEN "aborted" ELSE proc

\* answer: the button and the names of the question answered before the start
NoAnswer == [button |-> "", names |-> <<>>]

NewOp(fn, vg, lv, arg, cb, answer) ==
  [fn |-> fn, vg |-> vg, lv |-> lv, arg |-> arg, cb |-> cb, answer |-> answer,
   pc |-> "running", raised |-> FALSE, emits |-> 0, handled_by |-> "pending"]

\* a thread whose emission has been handled: only what it was started for, how
\* often it emitted and what handled its emission is kept
Handled(op, by) ==
  [op EXCEPT !.pc = "done", !.handled_by = by, !.raised = FALSE,
             !.vg = <<>>, !.lv = <<>>, !.arg = <<>>]

\* run_with_loading(func, *args, callback=cb): a new CommandThread is started
Start(fn, vg, lv, arg, cb, answer) ==
  /\ Len(ops) < MaxOps
  /\ ops' = Append(ops, NewOp(fn, vg, lv, arg, cb, answer))
  /\ win' = run_with_loading(win, Len(ops) + 1, cb)

\* the user selects another row of the list
SelectItem(row) ==
  /\ UiFree
  /\ row \in 1..Len(win.lv_list) /\ row # win.currentRow
  /\ LET w == [win EXCEPT !.currentRow = row]
     IN  \E run \in (IF HasRow(w, row) THEN UsageRuns(disk, w.lvs.list[row]) ELSE {OsError("lvs")}) :
           Settle(SelectionChanged(w, run))
  /\ UNCHANGED <<call, ret, disk, modal, ops, sigq>>

\* MainWindow.create_snapshot
CreateClick(typed) ==
  /\ UiFree
  /\ IF win.currentRow = 0 \/ Strip(typed) = <<>>
     THEN UNCHANGED <<win, ops>>
     ELSE LET text == win.lv_list[win.currentRow]
          IN  Start("create_snapshot", ItemVg(text), ItemLv(text), Strip(typed),
                    "on_snapshot_created", NoAnswer)
  /\ UNCHANGED <<call, ret, proc, disk, modal, sigq>>

\* the names the confirmation question shows: snapshot '{lv}' ... volume group '{vg}'
QuestionNames(vg, lv) == <<lv, vg>>

\* MainWindow.delete_snapshot, up to the confirmation question
DeleteClick ==
  /\ UiFree /\ win.delete_btn
  /\ IF win.currentRow = 0
     THEN UNCHANGED modal
     ELSE LET text == win.lv_list[win.currentRow]
          IN  modal' = [kind |-> "confirm", vg |-> ItemVg(text), lv |-> ItemLv(text),
                        names |-> QuestionNames(ItemVg(text), ItemLv(text))]
  /\ UNCHANGED <<call, ret, win, proc, disk, ops, sigq>>

\* a variant of the test that takes any answer for a Yes
ConfirmedAny(answer) == TRUE

\* confirm == QMessageBox.StandardButton.Yes
Confirmed(answer) == answer = "Yes"

\* MainWindow.delete_snapshot, from the answer to the question on
DeleteAnswer(answer) ==
  /\ proc = "running" /\ modal.kind = "confirm"
  /\ modal' = NoModal
  /\ IF Confirmed(answer)
     THEN Start("remove_snapshot", modal.vg, modal.lv, <<>>, "on_snapshot_deleted",
                [button |-> answer, names |-> modal.names])
     ELSE UNCHANGED <<win, ops>>
  /\ UNCHANGED <<call, ret, proc, disk, sigq>>

\* MainWindow.mount_snapshot, up to the mount point dialog
MountClick ==
  /\ UiFree /\ win.mount_btn
  /\ IF win.currentRow = 0
     THEN UNCHANGED <<win, proc, modal>>
     ELSE IF ~HasRow(win, win.currentRow)
          THEN Settle([win EXCEPT !.exc = "IndexError"]) /\ UNCHANGED modal
          ELSE LET rec == win.lvs.list[win.currentRow]
               IN  /\ modal' = IF rec.is_snap
                               THEN [kind |-> "mount_point", vg |-> rec.vg, lv |-> rec.lv,
                                     names |-> <<>>]
                               ELSE modal
                   /\ UNCHANGED <<win, proc>>
  /\ UNCHANGED <<call, ret, disk, ops, sigq>>

\* MainWindow.mount_snapshot, from the closing of the mount point dialog on
MountAnswer(ok, typed) ==
  /\ proc = "running" /\ modal.kind = "mount_point"
  /\ modal' = NoModal
  /\ IF ok /\ Strip(typed) # <<>>
     THEN Start("mount_snapshot", modal.vg, modal.lv, Strip(typed), "on_snapshot_mounted", NoAnswer)
     ELSE UNCHANGED <<win, ops>>
  /\ UNCHANGED <<call, ret, proc, disk, sigq>>

\* LoadingDialog is a plain QDialog: the Escape key rejects and hides it
LoadingReject ==
  /\ proc = "running" /\ modal = NoModal /\ win.loading_dialog.visible
  /\ win' = [win EXCEPT !.loading_dialog.visible = FALSE]
  /\ UNCHANGED <<call, ret, proc, disk, modal, ops, sigq>>

\* only mount_snapshot runs mkdir -p before its command
MkdirRuns(op) ==
  IF op.fn = "mount_snapshot" THEN {OsError("mkdir"), Exit("mkdir", 0, <<>>, <<>>)}
  ELSE {Exit("mkdir", 0, <<>>, <<>>)}

\* the lvs command of the refresh is only started by a callback told of a success
RefreshRuns(d, callback, success) ==
  IF success /\ callback \in {"on_snapshot_created", "on_snapshot_deleted"} THEN LvsRuns(d)
  ELSE {Exit("lvs", 0, LvsStdout(d), <<>>)}

\* CommandThread.run of thread i.  A thread that self.thread no longer refers
\* to is destroyed by Python as run returns, while Qt still counts it as
\* running: Qt may end the process there.
WorkerRun(i) ==
  /\ proc = "running"
  /\ i \in 1..Len(ops) /\ ops[i].pc = "running"
  /\ \E run \in CommandRuns(disk, ops[i]),
        mkdir_run \in MkdirRuns(ops[i]) :
       LET r == Wrapped(ops[i], mkdir_run, run)
           out == CommandThreadRun(r)
       IN  /\ ops' = [ops EXCEPT ![i] =
                     IF out = <<>> THEN Handled([@ EXCEPT !.raised = TRUE], "nothing")
                     ELSE [@ EXCEPT !.pc = "finished", !.raised = (r.kind = "raise"),
                                    !.emits = @ + Len(out)]]
           /\ sigq' = sigq \o [k \in 1..Len(out) |-> [op |-> i, ok |-> out[k].ok, msg |-> out[k].msg]]
           /\ disk' = IF ops[i].fn = "mount_snapshot" /\ mkdir_run.kind = "oserror" THEN disk
                      ELSE DiskAfter(disk, ops[i], run)
  /\ proc' \in (IF win.thread = i THEN {"running"} ELSE {"running", "aborted"})
  /\ UNCHANGED <<call, ret, win, modal>>

\* MainWindow.loading_finished for the first queued emission
Deliver ==
  /\ proc = "running" /\ sigq # <<>>
  /\ LET e == Head(sigq)
     IN  /\ \E run \in RefreshRuns(disk, win.callback, e.ok) :
                Settle(loading_finished(win, e.ok, run))
         /\ ops' = [ops EXCEPT ![e.op] = Handled(@, win.callback)]
  /\ sigq' = Tail(sigq)
  /\ UNCHANGED <<call, ret, disk, modal>>

\* the emission of a thread object that was replaced before its signal was
\* delivered may be discarded with the object
DropSignal ==
  /\ proc = "running" /\ sigq # <<>> /\ Head(sigq).op # win.thread
  /\ ops' = [ops EXCEPT ![Head(sigq).op] = Handled(@, "discarded")]
  /\ sigq' = Tail(sigq)
  /\ UNCHANGED <<call, ret, win, proc, disk, modal>>

Next ==
  \/ \E row \in 1..(Len(Disk0) + MaxOps) : SelectItem(row)
  \/ \E typed \in TypedNames : CreateClick(typed)
  \/ DeleteClick
  \/ \E answer \in Answers : DeleteAnswer(answer)
  \/ MountClick
  \/ \E ok \in BOOLEAN, typed \in TypedMountPoints : MountAnswer(ok, typed)
  \/ LoadingReject
  \/ \E i \in 1..MaxOps : WorkerRun(i)
  \/ Deliver
  \/ DropSignal

Spec == Init /\ [][Next]_vars

(***************************************************************************)
(* Properties                                                              *)
(***************************************************************************)
OpIds == 1..Len(ops)
Emissions(i) == {k \in 1..Len(sigq) : sigq[k].op = i}

\* C1: a started CommandThread has emitted nothing while its wrapped call
\* runs and exactly one (ok, message) pair once the call has returned or
\* raised, never none and never two; after a raise the pair is (False, text
\* of the exception).
C1_ExactlyOneCompletion ==
  \A i \in OpIds :
    /\ ops[i].emits = (IF ops[i].pc = "running" THEN 0 ELSE 1)
    /\ Cardinality(Emissions(i)) = (IF ops[i].pc = "finished" THEN 1 ELSE 0)
    /\ ops[i].raised =>
         \A k \in Emissions(i) : ~sigq[k].ok /\ sigq[k].msg = ExcText("OSError")

C1_Witness ==
  \E i \in OpIds : ops[i].pc = "finished" /\ ops[i].raised /\ ops[i].emits = 1
                   /\ Emissions(i) # {}

\* C2: at every moment at most one background worker is active, and each
\* completion is handled by the callback of the call that produced it.
C2_Serialized ==
  /\ Cardinality({i \in OpIds : ops[i].pc = "running"}) <= 1
  /\ \A i \in OpIds : ops[i].pc = "done" => ops[i].handled_by = ops[i].cb

\* C3 as claimed: a line whose naive comma split has 6 to 10 fields is
\* repaired to exactly 8 fields.
C3_EightFieldsFrom6 ==
  (call.fn = "DetailsTableDialog" /\ ret # Pending
     /\ Len(SplitOn(call.line, ",")) \in 6..10)
  => Len(ret.val) = 8

\* C3 as amended: a line whose naive comma split has 8 to 10 fields is
\* repaired to exactly 8 fields.
C3_EightFieldsFrom8 ==
  (call.fn = "DetailsTableDialog" /\ ret # Pending
     /\ Len(SplitOn(call.line, ",")) \in 8..10)
  => Len(ret.val) = 8

C3_Witness ==
  /\ call.fn = "DetailsTableDialog" /\ ret # Pending
  /\ Len(SplitOn(call.line, ",")) = 10 /\ Len(ret.val) = 8

\* C4: the delivery of a completion with ok = false changes neither self.lvs
\* nor the displayed list, its current row, the usage shown or the buttons;
\* and a lifecycle command that fails leaves the disk, hence what the next
\* read reports, as it was.
C4_FailureChangesNothing ==
  [][/\ (proc = "running" /\ sigq # <<>> /\ ~Head(sigq).ok /\ sigq' = Tail(sigq))
        => /\ win'.lvs = win.lvs /\ win'.lv_list = win.lv_list
           /\ win'.currentRow = win.currentRow /\ win'.usage_label = win.usage_label
           /\ win'.delete_btn = win.delete_btn /\ win'.mount_btn = win.mount_btn
           /\ disk' = disk
     /\ (Len(sigq') = Len(sigq) + 1 /\ ~sigq'[Len(sigq')].ok)
        => disk' = disk /\ win'.lvs = win.lvs /\ win'.lv_list = win.lv_list]_vars

C4_Witness ==
  /\ proc = "running" /\ sigq # <<>> /\ ~Head(sigq).ok
  /\ win.currentRow # 0 /\ win.lv_list # <<>> /\ win.usage_label.kind = "snapshot"

\* the rows of an inventory listing that have at least two fields
KeptRows(stdout) == SelectSeq(InventoryLines(stdout), LAMBDA r : Len(r) >= 2)

\* C5: when lvs exits 0, list_logical_volumes returns one record, in output
\* order, for each line with at least two fields, and drops the other lines.
C5_ShortLinesDropped ==
  (call.fn = "list_logical_volumes" /\ ret # Pending
     /\ call.run.kind = "exit" /\ call.run.returncode = 0)
  => /\ ret.kind = "return"
     /\ ret.val = [i \in 1..Len(KeptRows(call.run.stdout)) |->
                     LvRecord(KeptRows(call.run.stdout)[i])]

\* the probe has no version to report: the command cannot be started, exits
\* non-zero, or prints no line starting with "LVM version:"
NoProbe(run) ==
  \/ run.kind = "oserror"
  \/ run.returncode # 0
  \/ \A i \in 1..Len(SplitLines(run.stdout)) :
       ~StartsWith(SplitLines(run.stdout)[i], LvmVersionPrefix)

\* C6: check_lvm_version never raises, returns None whenever the probe has no
\* version to report, and the construction of the window is not aborted.
C6_ProbeNeverRaises ==
  /\ (call.fn = "check_lvm_version" /\ ret # Pending)
     => ret.kind = "return" /\ (NoProbe(call.run) => ret.val = NoVersion)
  /\ (call.fn = "MainWindow" /\ ret # Pending) => ~ret.val.aborted /\ proc = "running"

\* a is lexicographically greater than b
LexGreater(a, b) ==
  \E i \in 1..Len(a) :
    /\ \A j \in 1..(i - 1) : j <= Len(b) /\ a[j] = b[j]
    /\ i > Len(b) \/ a[i] > b[i]

\* C7: when the probe returned (a tuple or None), the warning is shown exactly
\* when the tuple is lexicographically greater than (2, 3, 30), so for
\* (2, 3, 31) and not for (2, 3, 30), (2, 3, 29) or None, and the construction
\* goes on.
C7_WarningIffNewer ==
  (call.fn = "MainWindow" /\ ret # Pending /\ check_lvm_version(call.run).kind = "return")
  => LET v == ret.val.current_version
     IN  /\ v = check_lvm_version(call.run).val
         /\ ret.val.warned <=> (~v.none /\ LexGreater(v.tuple, <<2, 3, 30>>))
         /\ (~v.none /\ v.tuple = <<2, 3, 31>>) => ret.val.warned
         /\ (v.none \/ v.tuple \in {<<2, 3, 30>>, <<2, 3, 29>>}) => ~ret.val.warned
         /\ ~ret.val.aborted /\ proc = "running"

C7_Witness ==
  /\ call.fn = "MainWindow" /\ ret # Pending
  /\ ret.val.warned /\ ret.val.current_version.tuple = <<2, 3, 31>>
  /\ proc = "running"

\* C8: every pair get_snapshot_info returns that is not Unknown has
\* 0 <= usedMB <= totalMB.
C8_UsedWithinTotal ==
  (call.fn = "get_snapshot_info" /\ ret.kind = "return" /\ ~ret.val.unknown)
  => /\ 0 <= ret.val.a.n
     /\ ret.val.a.n * ret.val.b.d <= ret.val.b.n * ret.val.a.d

\* no line of the output has the requested name as its first field
NoLineFor(stdout, lv_name) ==
  \A i \in 1..Len(InventoryLines(stdout)) :
    InventoryLines(stdout)[i] = <<>> \/ InventoryLines(stdout)[i][1] # lv_name

\* C9: get_snapshot_info and get_vg_free_space never raise, and return the
\* Unknown pair when the command cannot be started, exits non-zero, prints
\* nothing or (get_snapshot_info) prints no line for the requested name.
C9_UnknownNeverRaise ==
  (call.fn \in {"get_snapshot_info", "get_vg_free_space"} /\ ret # Pending)
  => /\ ret.kind = "return"
     /\ (call.run.kind = "oserror" \/ call.run.returncode # 0 \/ Strip(call.run.stdout) = <<>>)
        => ret.val = Unknown
     /\ (call.fn = "get_snapshot_info" /\ NoLineFor(call.run.stdout, call.lv_name))
        => ret.val = Unknown

\* C10: a CommandThread for remove_snapshot exists only after the user
\* answered Yes to the question naming the volume group and the snapshot the
\* removal is for.
C10_RemoveOnlyAfterYes ==
  \A i \in OpIds :
    ops[i].fn = "remove_snapshot"
    => /\ ops[i].answer.button = "Yes"
       /\ ops[i].pc # "done" => ops[i].answer.names = <<ops[i].lv, ops[i].vg>>

C10_Witness ==
  \E i \in OpIds :
    /\ ops[i].fn = "remove_snapshot" /\ ops[i].pc = "finished"
    /\ ops[i].answer.button = "Yes"
    /\ ~OnDisk(disk, ops[i].vg, ops[i].lv)

\* a lifecycle request has been carried out
LifecycleDone == call.fn \in LifecycleFns /\ ret # Pending

\* the command of the request was started and exited
Exited ==
  call.run.kind = "exit" /\ ~(call.fn = "mount_snapshot" /\ call.mkdir_run.kind = "oserror")

\* C11 as claimed: the callback receives one pair, the pair the function
\* returned; ok is true exactly when the command exited with code 0, and on a
\* non-zero exit the pair is (false, the stderr the command wrote).
C11_StderrVerbatim ==
  LifecycleDone
  => /\ Len(ret.val.received) = 1
     /\ ret.val.received[1].ok <=> (Exited /\ call.run.returncode = 0)
     /\ (Exited /\ call.run.returncode # 0)
        => ret.val.received[1] = Result(FALSE, call.run.stderr)
     /\ ret.val.result.kind = "return" => ret.val.received[1] = ret.val.result.val

\* C11 as amended: the same, with the message on a non-zero exit being the
\* stderr the command wrote without its leading and trailing whitespace.
C11_StderrStripped ==
  LifecycleDone
  => /\ Len(ret.val.received) = 1
     /\ ret.val.received[1].ok <=> (Exited /\ call.run.returncode = 0)
     /\ (Exited /\ call.run.returncode # 0)
        => ret.val.received[1] = Result(FALSE, Strip(call.run.stderr))
     /\ ret.val.result.kind = "return" => ret.val.received[1] = ret.val.result.val

C11_Witness ==
  /\ LifecycleDone /\ Exited /\ call.run.returncode # 0 /\ call.run.stderr = ErrText
  /\ ret.val.received = <<Result(FALSE, <<"e", "r", "r">>)>>

\* C12 as claimed: a request starts its command exactly once, a mount request
\* mkdir once and then mount once, whatever the outcome; nothing undoes the
\* directory, so after a mount whose mkdir succeeded the directory is there.
C12_OneMountCall ==
  LifecycleDone
  => /\ ret.val.cmds = (IF call.fn = "mount_snapshot" THEN <<"mkdir", "mount">>
                        ELSE <<CommandOf(call.fn)>>)
     /\ call.dir_exists => ret.val.dir
     /\ (call.fn = "mount_snapshot" /\ call.mkdir_run.kind = "exit"
           /\ call.mkdir_run.returncode = 0) => ret.val.dir

\* C12 as amended: the same, except that a mount request whose mkdir could not
\* be started starts no mount.
C12_OneCallNoRollback ==
  LifecycleDone
  => /\ ret.val.cmds =
          (IF call.fn # "mount_snapshot" THEN <<CommandOf(call.fn)>>
           ELSE IF call.mkdir_run.kind = "oserror" THEN <<"mkdir">>
           ELSE <<"mkdir", "mount">>)
     /\ call.dir_exists => ret.val.dir
     /\ (call.fn = "mount_snapshot" /\ call.mkdir_run.kind = "exit"
           /\ call.mkdir_run.returncode = 0) => ret.val.dir

C12_Witness ==
  /\ LifecycleDone /\ call.fn = "mount_snapshot" /\ ~call.dir_exists
  /\ call.mkdir_run.kind = "exit" /\ call.mkdir_run.returncode = 0
  /\ call.run.kind = "exit" /\ call.run.returncode # 0
  /\ ret.val.cmds = <<"mkdir", "mount">> /\ ret.val.dir /\ ~ret.val.received[1].ok

\* C13: every displayed item has a record at its row of self.lvs, the record
\* its text was built from; the current row is a row of the list or none; and
\* no handler has failed on self.lvs[row].
C13_RowsMatchInventory ==
  /\ \A row \in 1..Len(win.lv_list) :
       HasRow(win, row) /\ win.lv_list[row] = ItemText(win.lvs.list[row])
  /\ win.currentRow \in 0..Len(win.lv_list)
  /\ win.exc \notin {"IndexError", "AttributeError"}

C13_Witness ==
  /\ proc = "running" /\ win.status_label = "deleted"
  /\ win.currentRow # 0 /\ Len(win.lvs.list) < Len(Disk0)
  /\ win.usage_label.kind # "none"

\* the inventory held by the window flags vg/lv as a snapshot
ListedSnapshot(vg, lv) ==
  \E row \in 1..Len(win.lvs.list) :
    win.lvs.list[row] = [vg |-> vg, lv |-> lv, is_snap |-> TRUE]

\* C14: a thread for remove_snapshot is only started for a volume that the
\* inventory the window holds at that moment flags as a snapshot, and while
\* the window runs Delete and Mount are enabled only with a snapshot selected.
C14_RemoveOnlyListedSnapshot ==
  /\ [](proc = "running" /\ (win.delete_btn \/ win.mount_btn)
         => /\ win.currentRow # 0 /\ HasRow(win, win.currentRow)
            /\ win.lvs.list[win.currentRow].is_snap)
  /\ [][(Len(ops') = Len(ops) + 1 /\ ops'[Len(ops')].fn = "remove_snapshot")
          => ListedSnapshot(ops'[Len(ops')].vg, ops'[Len(ops')].lv)]_vars

=============================================================================
